---- MODULE Spec2Model ----
(***************************************************************************)
(* Order lifecycle and ledger subsystem of BizFlow (services/order_service, *)
(* infrastructure/models, api/controllers).                                 *)
(*                                                                          *)
(* Every HTTP request runs in its own SQLAlchemy session, i.e. its own      *)
(* database transaction (MySQL/InnoDB, REPEATABLE READ).  A handler reads   *)
(* from the snapshot taken when the request starts, and everything it       *)
(* writes becomes visible to the other requests at db.session.commit().     *)
(* Each handler is therefore two steps of a worker: the request step        *)
(* (snapshot, checks, early returns) and the commit step (the writes).      *)
(* No handler takes a lock (no with_for_update, no version column), so a    *)
(* commit succeeds whatever other requests committed in between; the only   *)
(* exception is the unique index on orders.order_number.                    *)
(* confirm_draft_order commits twice: the order in create_order, then the   *)
(* status of the draft.                                                     *)
(*                                                                          *)
(* Quantities are fixed-point integers in units of 1/QtyScale               *)
(* (Numeric(15,4)); money is in cents (Numeric(15,2)).                      *)
(***************************************************************************)
EXTENDS Integers, Sequences, FiniteSets, Bags, TLC

\* ------------------------------------------------------------------ bounds
MaxOrders == 2
MaxImports == 1

\* --------------------------------------------------------------- constants
QtyScale == 10000

Workers == {1, 2}

\* OrderStatus (domain/constants.py)
OrderStatus_NEW == "new"
OrderStatus_CONFIRMED == "confirmed"
OrderStatus_COMPLETED == "completed"
OrderStatus_CANCELED == "canceled"
OrderStatus == {OrderStatus_NEW, OrderStatus_CONFIRMED, OrderStatus_COMPLETED, OrderStatus_CANCELED}

\* DraftOrderStatus (domain/constants.py)
DraftOrderStatus_DRAFT == "draft"
DraftOrderStatus_CONFIRMED == "confirmed"
DraftOrderStatus_REJECTED == "rejected"

\* Role (domain/constants.py)
Role_ADMIN == "admin"
Role_OWNER == "owner"
Role_EMPLOYEE == "employee"

\* ----------------------------------------------------------------- catalog
\* A small catalog in the shape of seed.py: two stores, products with
\* several units, customers, an owner and an employee.
Stores == {1, 2}
Products == {1, 2, 3}
product_store == <<1, 1, 2>>
ProductUnits == {1, 2, 3, 4, 5}
unit_product == <<1, 1, 2, 3, 2>>
\* ProductUnit.conversion_factor, Numeric(10,4): unit 5 is 0.167 base units
conversion_factor == <<10000, 20000, 10000, 10000, 1670>>
unit_price == <<100, 200, 100, 100, 20>>
Customers == {1, 2}
customer_store == <<1, 2>>
\* customers.debt_limit in cents (0 = no limit)
debt_limit == <<200, 0>>
Users == {1, 2}
user_role == <<Role_OWNER, Role_EMPLOYEE>>
user_store == <<0, 2>>
owned_stores == <<{1}, {}>>
NoCustomer == 0
NoOrder == 0
NoUser == 0
NoPayment == 0
NoDraft == 0
NoUnit == 0

\* The draft orders that create_draft_order stored, with their parsed_data:
\* draft 1 is a cash sale of 1 of product 1, draft 2 has an item whose
\* product was not resolved (product_unit_id null), draft 3 is a credit sale
\* of 1 of product 2 to customer 1.
Drafts == {1, 2, 3}
draft_store == <<1, 1, 1>>
DraftItem(u, q) == [product_unit_id |-> u, quantity |-> q]
parsed_data == <<
    [customer_id |-> NoCustomer, is_credit |-> FALSE, items |-> <<DraftItem(1, 10000)>>],
    [customer_id |-> NoCustomer, is_credit |-> FALSE, items |-> <<DraftItem(NoUnit, 10000)>>],
    [customer_id |-> 1, is_credit |-> TRUE, items |-> <<DraftItem(3, 10000)>>] >>

VARIABLES
    orders,        \* table orders with its order_details: Seq of records, id = index
                   \* (notes: whether a cancellation reason was appended to them)
    movements,     \* table inventory_transactions: bag of records
    ledger,        \* table bookkeeping_entries: bag of records
    debt_balance,  \* customers.debt_balance
    imports_done,  \* number of committed import requests
    draft_status,  \* draft_orders.status
    pc,            \* per worker: "idle", "pending" (request running, not committed)
                   \* or "replied" (request ended, response on its way out);
                   \* "created" between the two commits of confirm_draft_order
    txn,           \* per worker: the request it runs, with what the handler read
    result         \* per worker: the outcome of the request that just ended

db == <<orders, movements, ledger, debt_balance, imports_done, draft_status>>
vars == <<orders, movements, ledger, debt_balance, imports_done, draft_status, pc, txn, result>>

\* ------------------------------------------------------------ arithmetic
RECURSIVE SumSeq(_)
SumSeq(s) == IF s = <<>> THEN 0 ELSE Head(s) + SumSeq(Tail(s))

RECURSIVE SumQty(_, _)
\* sum of qty_change over the records of bag B that are in set S
SumQty(B, S) ==
    IF S = {} THEN 0
    ELSE LET r == CHOOSE x \in S : TRUE
         IN r.qty_change * CopiesIn(r, B) + SumQty(B, S \ {r})

\* Decimal -> Numeric(.., k): MySQL rounds an exact value half away from zero
RoundHalfAway(n, d) ==
    IF n >= 0 THEN (2 * n + d) \div (2 * d) ELSE -((2 * (-n) + d) \div (2 * d))

\* float -> Numeric(15,4): an approximate value is rounded to nearest
\* (the inputs of this model never produce a tie)
RoundNearest(n, d) ==
    IF n >= 0 THEN (2 * n + d) \div (2 * d) ELSE -((2 * (-n) + d) \div (2 * d))

Max(a, b) == IF a >= b THEN a ELSE b

SeqToBag(s) == [r \in {s[i] : i \in DOMAIN s} |-> Cardinality({i \in DOMAIN s : s[i] = r})]

\* ------------------------------------------------------------ User model
is_admin(u) == user_role[u] = Role_ADMIN
is_owner(u) == user_role[u] = Role_OWNER
is_employee(u) == user_role[u] = Role_EMPLOYEE

\* an employee is let into every store
can_access_store_any_employee(u, s) ==
    IF is_admin(u) THEN TRUE
    ELSE IF is_owner(u) THEN s \in owned_stores[u]
    ELSE is_employee(u)

can_access_store(u, s) ==
    IF is_admin(u) THEN TRUE
    ELSE IF is_owner(u) THEN s \in owned_stores[u]
    ELSE IF is_employee(u) THEN user_store[u] = s
    ELSE FALSE

\* --------------------------------------------------- Inventory projector
\* Product.current_stock: sum over the movements of the product
current_stock(p) ==
    SumQty(movements, {r \in BagToSet(movements) : r.product_id = p})

\* get_product_stock: sum over the movements of the product in the store
get_product_stock(s, p) ==
    SumQty(movements, {r \in BagToSet(movements) : r.store_id = s /\ r.product_id = p})

\* ----------------------------------------------------------- Debt account
\* Customer.can_add_debt (no handler calls it)
can_add_debt(c, balance, amount) ==
    IF debt_limit[c] = 0 THEN TRUE ELSE balance + amount <= debt_limit[c]

\* the balance is left as it was
add_debt_ignored(balance, amount) == balance

add_debt(balance, amount) == balance + amount

\* the floor at zero left out
reduce_debt_unclamped(balance, amount) == balance - amount

reduce_debt(balance, amount) == Max(0, balance - amount)

\* ------------------------------------------------------- request payloads
\* item of a create-order request: {product_unit_id, quantity, unit_price?, discount?}
NoPrice == -1
Item(u, q) == [product_unit_id |-> u, quantity |-> q, unit_price |-> NoPrice, discount |-> 0]

\* the create-order requests the model submits
CreateRequests == {
    \* cash sale of 2 of product 1
    [store_id |-> 1, customer_id |-> NoCustomer, is_credit |-> FALSE,
     items |-> <<Item(1, 20000)>>],
    \* credit sale: 1 of product 2 and 1 x unit 2 (= 2 base units) of product 1
    [store_id |-> 1, customer_id |-> 1, is_credit |-> TRUE,
     items |-> <<Item(3, 10000), Item(2, 10000)>>],
    \* credit sale of 1 x unit 2 (= 2 base units) of product 1
    [store_id |-> 1, customer_id |-> 1, is_credit |-> TRUE,
     items |-> <<Item(2, 10000)>>],
    \* cash sale with a negative quantity of product 2 (no check rejects it)
    [store_id |-> 1, customer_id |-> NoCustomer, is_credit |-> FALSE,
     items |-> <<Item(3, -10000)>>],
    \* product of another store
    [store_id |-> 2, customer_id |-> NoCustomer, is_credit |-> FALSE,
     items |-> <<Item(1, 10000)>>],
    \* credit sale without a customer
    [store_id |-> 1, customer_id |-> NoCustomer, is_credit |-> TRUE,
     items |-> <<Item(1, 10000)>>],
    \* customer of another store
    [store_id |-> 1, customer_id |-> 2, is_credit |-> TRUE,
     items |-> <<Item(1, 10000)>>] }

\* create-order requests that exercise the arithmetic of create_order
PricingRequests == {
    \* credit sale with a negative quantity of product 2
    [store_id |-> 1, customer_id |-> 1, is_credit |-> TRUE,
     items |-> <<Item(3, -10000)>>],
    \* credit sale with a discount larger than the line
    [store_id |-> 1, customer_id |-> 1, is_credit |-> TRUE,
     items |-> <<[Item(3, 10000) EXCEPT !.discount = 300]>>],
    \* cash sale of 0.005 of product 2 and 0.005 of product 1
    [store_id |-> 1, customer_id |-> NoCustomer, is_credit |-> FALSE,
     items |-> <<Item(3, 50), Item(1, 50)>>],
    \* credit sale of 1 of product 2
    [store_id |-> 1, customer_id |-> 1, is_credit |-> TRUE,
     items |-> <<Item(3, 10000)>>],
    \* credit sale without a customer
    [store_id |-> 1, customer_id |-> NoCustomer, is_credit |-> TRUE,
     items |-> <<Item(3, 10000)>>] }

\* create-order requests for two stores
AccessRequests == {
    \* store 1: cash sale of 2 of product 1
    [store_id |-> 1, customer_id |-> NoCustomer, is_credit |-> FALSE,
     items |-> <<Item(1, 20000)>>],
    \* store 1: credit sale of 1 of product 2
    [store_id |-> 1, customer_id |-> 1, is_credit |-> TRUE,
     items |-> <<Item(3, 10000)>>],
    \* store 2: credit sale of 0 of product 3
    [store_id |-> 2, customer_id |-> 2, is_credit |-> TRUE,
     items |-> <<[Item(4, 0) EXCEPT !.discount = -100]>>],
    \* store 2: cash sale of 1 of product 3
    [store_id |-> 2, customer_id |-> NoCustomer, is_credit |-> FALSE,
     items |-> <<Item(4, 10000)>>] }

\* create-order requests that exercise the stock arithmetic of confirm_order
StockRequests == {
    \* cash sale with two lines of product 1: 1 base unit and 1 x unit 2
    [store_id |-> 1, customer_id |-> NoCustomer, is_credit |-> FALSE,
     items |-> <<Item(1, 10000), Item(2, 10000)>>],
    \* cash sale of 0.01 of unit 5 (= 0.00167 base units) of product 2
    [store_id |-> 1, customer_id |-> NoCustomer, is_credit |-> FALSE,
     items |-> <<Item(5, 100)>>],
    \* credit sale of 1 of product 2 and 2 of product 1
    [store_id |-> 1, customer_id |-> 1, is_credit |-> TRUE,
     items |-> <<Item(3, 10000), Item(1, 20000)>>] }

\* the amounts (in cents) of the payment requests the model submits
PaymentAmounts == {0, 100}

\* the inventory-import requests the model submits
ImportRequests == {
    [store_id |-> 1, items |-> <<[product_id |-> 1, quantity |-> 20000],
                                 [product_id |-> 2, quantity |-> 10000]>>],
    [store_id |-> 1, items |-> <<[product_id |-> 1, quantity |-> 20000],
                                 [product_id |-> 3, quantity |-> 10000]>>] }

\* ------------------------------------------------------------ worker state
NoTxn == [op |-> "none", user |-> NoUser, order |-> NoOrder, draft |-> NoDraft,
          req |-> <<>>,
          number |-> <<>>, customer |-> NoCustomer, amount |-> 0,
          status |-> "none", bal |-> 0, reason |-> FALSE,
          seen |-> [p \in Products |-> 0]]

\* the request fails before it wrote anything: the session is discarded
Fail(w, t, err) ==
    /\ txn' = [txn EXCEPT ![w] = [NoTxn EXCEPT !.op = t.op, !.user = t.user, !.order = t.order,
                                            !.draft = t.draft, !.req = t.req, !.customer = t.customer,
                                            !.amount = t.amount]]
    /\ result' = [result EXCEPT ![w] = err]
    /\ pc' = [pc EXCEPT ![w] = "replied"]
    /\ UNCHANGED db

\* the request passed its checks; its writes wait for the commit
Run(w, t) ==
    /\ txn' = [txn EXCEPT ![w] = t]
    /\ pc' = [pc EXCEPT ![w] = "pending"]
    /\ UNCHANGED <<db, result>>

\* the request ends after its commit
Done(w, res) ==
    /\ pc' = [pc EXCEPT ![w] = "replied"]
    /\ result' = [result EXCEPT ![w] = res]
    /\ UNCHANGED txn

\* the response leaves the worker, which is free for the next request
reply(w) ==
    /\ pc[w] = "replied"
    /\ pc' = [pc EXCEPT ![w] = "idle"]
    /\ txn' = [txn EXCEPT ![w] = NoTxn]
    /\ result' = [result EXCEPT ![w] = "none"]
    /\ UNCHANGED db

Pending(op) == {v \in Workers : pc[v] = "pending" /\ txn[v].op = op}

\* ------------------------------------------------------------ Order model
\* generate_order_number: count of the store's orders of today, plus one
\* (the model covers one day, so the date prefix is constant)
generate_order_number(s) ==
    <<s, Cardinality({i \in DOMAIN orders : orders[i].store_id = s}) + 1>>

Order_confirm(o, u) ==
    [o EXCEPT !.status = OrderStatus_CONFIRMED, !.confirmed_by_user_id = u]

Order_complete(o) == [o EXCEPT !.status = OrderStatus_COMPLETED]

Order_cancel(o) == [o EXCEPT !.status = OrderStatus_CANCELED]

\* base-unit quantity of an order line, times QtyScale (not yet rounded)
required(item) == item.quantity * conversion_factor[item.product_unit_id]

\* the value stored in inventory_transactions.qty_change for an order line
qty_base(item) == RoundNearest(required(item), QtyScale)

\* ----------------------------------------------------------- create_order
line_total(item) ==
    LET price == IF item.unit_price = NoPrice THEN unit_price[item.product_unit_id]
                 ELSE item.unit_price
    IN item.quantity * price - item.discount * QtyScale

OrderDetail(item) ==
    [product_id |-> unit_product[item.product_unit_id],
     product_unit_id |-> item.product_unit_id,
     quantity |-> item.quantity,
     unit_price |-> IF item.unit_price = NoPrice THEN unit_price[item.product_unit_id]
                    ELSE item.unit_price,
     discount |-> item.discount,
     line_total |-> RoundHalfAway(line_total(item), QtyScale)]

create_order_total(items) ==
    RoundHalfAway(SumSeq([i \in DOMAIN items |-> line_total(items[i])]), QtyScale)

\* the store check of the lines left out
create_order_items_unchecked(r) == TRUE

create_order_items_ok(r) ==
    \A i \in DOMAIN r.items :
        product_store[unit_product[r.items[i].product_unit_id]] = r.store_id

\* the check "credit sale requires customer" left out
credit_without_customer_unchecked(r) == FALSE

\* is_credit and not customer
credit_without_customer(r) == r.is_credit /\ r.customer_id = NoCustomer

\* the unique index on orders.order_number left out
order_number_unchecked(number) == FALSE

\* the unique index on orders.order_number refuses the insert
order_number_taken(number) == \E i \in DOMAIN orders : orders[i].order_number = number

\* source_draft_order_id of a create_order call (None unless the call comes
\* from confirm_draft_order)
source_draft_order_id(r) ==
    IF "source_draft_order_id" \in DOMAIN r THEN r.source_draft_order_id ELSE NoDraft

\* the order is stored as already confirmed
Order_new_confirmed(r, number, u) ==
    [store_id |-> r.store_id,
     customer_id |-> r.customer_id,
     order_number |-> number,
     status |-> OrderStatus_CONFIRMED,
     is_credit |-> r.is_credit,
     total_amount |-> create_order_total(r.items),
     paid_amount |-> IF r.is_credit THEN 0 ELSE create_order_total(r.items),
     notes |-> FALSE,
     created_by_user_id |-> u,
     confirmed_by_user_id |-> NoUser,
     source_draft_order_id |-> source_draft_order_id(r),
     items |-> [i \in DOMAIN r.items |-> OrderDetail(r.items[i])]]

\* the Order row and its OrderDetail rows that create_order stores
Order_new(r, number, u) ==
    [store_id |-> r.store_id,
     customer_id |-> r.customer_id,
     order_number |-> number,
     status |-> OrderStatus_NEW,
     is_credit |-> r.is_credit,
     total_amount |-> create_order_total(r.items),
     paid_amount |-> IF r.is_credit THEN 0 ELSE create_order_total(r.items),
     notes |-> FALSE,
     created_by_user_id |-> u,
     confirmed_by_user_id |-> NoUser,
     source_draft_order_id |-> source_draft_order_id(r),
     items |-> [i \in DOMAIN r.items |-> OrderDetail(r.items[i])]]

create_order(w, u, r) ==
    /\ pc[w] = "idle"
    /\ Len(orders) + Cardinality(Pending("create_order")) < MaxOrders
    /\ LET t == [NoTxn EXCEPT !.op = "create_order", !.user = u, !.req = r,
                              !.number = generate_order_number(r.store_id)]
       IN IF ~can_access_store(u, r.store_id)
             THEN Fail(w, t, "AuthorizationError")
          ELSE IF r.customer_id # NoCustomer /\ customer_store[r.customer_id] # r.store_id
             THEN Fail(w, t, "NotFoundError")
          ELSE IF credit_without_customer(r)
             THEN Fail(w, t, "ValidationError")
          ELSE IF ~create_order_items_ok(r)
             THEN Fail(w, t, "ValidationError")
          ELSE Run(w, t)

create_order_commit(w) ==
    /\ pc[w] = "pending"
    /\ txn[w].op = "create_order"
    /\ LET order == Order_new(txn[w].req, txn[w].number, txn[w].user)
       IN IF order_number_taken(txn[w].number)
             THEN \* unique index on order_number: IntegrityError, rolled back
                  /\ Done(w, "IntegrityError")
                  /\ UNCHANGED db
             ELSE /\ orders' = Append(orders, order)
                  /\ Done(w, "ok")
                  /\ UNCHANGED <<movements, ledger, debt_balance, imports_done, draft_status>>

\* ------------------------------------------------------- import_inventory
import_inventory(w, u, r) ==
    /\ pc[w] = "idle"
    /\ imports_done + Cardinality(Pending("import_inventory")) < MaxImports
    /\ LET t == [NoTxn EXCEPT !.op = "import_inventory", !.user = u, !.req = r]
       IN IF ~can_access_store(u, r.store_id)
             THEN Fail(w, t, "AuthorizationError")
          ELSE IF \E i \in DOMAIN r.items :
                     \/ r.items[i].product_id \notin Products
                     \/ product_store[r.items[i].product_id] # r.store_id
             THEN Fail(w, t, "NotFoundError")
          ELSE Run(w, t)

import_inventory_commit(w) ==
    /\ pc[w] = "pending"
    /\ txn[w].op = "import_inventory"
    /\ LET r == txn[w].req
           rows == [i \in DOMAIN r.items |->
                      [store_id |-> r.store_id,
                       product_id |-> r.items[i].product_id,
                       product_unit_id |-> 0,
                       qty_change |-> r.items[i].quantity,
                       ref_type |-> "import",
                       ref_id |-> 0]]
       IN movements' = movements (+) SeqToBag(rows)
    /\ imports_done' = imports_done + 1
    /\ Done(w, "ok")
    /\ UNCHANGED <<orders, ledger, debt_balance, draft_status>>

\* ---------------------------------------------------------- confirm_order
\* the stock check of one line: current_stock < required
insufficient(item) ==
    current_stock(item.product_id) * QtyScale < required(item)

\* only the first line is checked
stock_available_first_line(o) ==
    orders[o].items = <<>> \/ ~insufficient(orders[o].items[1])

\* the stock check over all the lines of the order
stock_available(o) ==
    \A i \in DOMAIN orders[o].items : ~insufficient(orders[o].items[i])

\* only a CONFIRMED order counts as already confirmed
already_confirmed_only(o) == orders[o].status = OrderStatus_CONFIRMED

\* order.status != OrderStatus.NEW
already_confirmed(o) == orders[o].status # OrderStatus_NEW

confirm_order(w, u, o) ==
    /\ pc[w] = "idle"
    /\ LET t == [NoTxn EXCEPT !.op = "confirm_order", !.user = u, !.order = o]
       IN IF o \notin DOMAIN orders
             THEN Fail(w, t, "NotFoundError")
          ELSE IF ~can_access_store(u, orders[o].store_id)
             THEN Fail(w, t, "AuthorizationError")
          ELSE IF already_confirmed(o)
             THEN Fail(w, t, "OrderAlreadyConfirmedError")
          ELSE IF ~stock_available(o)
             THEN Fail(w, t, "InsufficientStockError")
          ELSE Run(w, [t EXCEPT !.status = orders[o].status,
                                !.seen = [p \in Products |-> current_stock(p)],
                                !.bal = IF orders[o].customer_id # NoCustomer
                                        THEN debt_balance[orders[o].customer_id]
                                        ELSE 0])

\* the stock-out rows of an order
deduct_inventory(o) ==
    [i \in DOMAIN orders[o].items |->
        [store_id |-> orders[o].store_id,
         product_id |-> orders[o].items[i].product_id,
         product_unit_id |-> orders[o].items[i].product_unit_id,
         qty_change |-> -qty_base(orders[o].items[i]),
         ref_type |-> "order",
         ref_id |-> o]]

create_debt_entry(o) ==
    [store_id |-> orders[o].store_id, entry_type |-> "debt_in",
     ref_type |-> "order", ref_id |-> o, amount |-> orders[o].total_amount]

\* a cash sale booked as a debt
create_revenue_entry_as_debt(o) ==
    [store_id |-> orders[o].store_id, entry_type |-> "debt_in",
     ref_type |-> "order", ref_id |-> o, amount |-> orders[o].total_amount]

create_revenue_entry(o) ==
    [store_id |-> orders[o].store_id, entry_type |-> "revenue",
     ref_type |-> "order", ref_id |-> o, amount |-> orders[o].total_amount]

confirm_order_commit(w) ==
    /\ pc[w] = "pending"
    /\ txn[w].op = "confirm_order"
    /\ LET o == txn[w].order
           c == orders[o].customer_id
       IN /\ movements' = movements (+) SeqToBag(deduct_inventory(o))
          /\ IF orders[o].is_credit
                THEN /\ ledger' = ledger (+) SetToBag({create_debt_entry(o)})
                     /\ debt_balance' =
                           IF c # NoCustomer
                           THEN [debt_balance EXCEPT
                                    ![c] = add_debt(txn[w].bal, orders[o].total_amount)]
                           ELSE debt_balance
                ELSE /\ ledger' = ledger (+) SetToBag({create_revenue_entry(o)})
                     /\ debt_balance' = debt_balance
          /\ orders' = [orders EXCEPT ![o] = Order_confirm(orders[o], txn[w].user)]
    /\ Done(w, "ok")
    /\ UNCHANGED <<imports_done, draft_status>>

\* ----------------------------------------------------------- cancel_order
\* the guard tests the wrong status
is_completed_wrong(o) == orders[o].status = OrderStatus_CANCELED

\* order.status == OrderStatus.COMPLETED
is_completed(o) == orders[o].status = OrderStatus_COMPLETED

cancel_order(w, u, o, reason) ==
    /\ pc[w] = "idle"
    /\ LET t == [NoTxn EXCEPT !.op = "cancel_order", !.user = u, !.order = o,
                              !.reason = reason]
       IN IF o \notin DOMAIN orders
             THEN Fail(w, t, "NotFoundError")
          ELSE IF ~can_access_store(u, orders[o].store_id)
             THEN Fail(w, t, "AuthorizationError")
          ELSE IF is_completed(o)
             THEN Fail(w, t, "ValidationError")
          ELSE Run(w, [t EXCEPT !.status = orders[o].status,
                         !.bal = IF orders[o].customer_id # NoCustomer
                                 THEN debt_balance[orders[o].customer_id]
                                 ELSE 0])

\* the stock-in rows that restore an order
restore_inventory(o) ==
    [i \in DOMAIN orders[o].items |->
        [store_id |-> orders[o].store_id,
         product_id |-> orders[o].items[i].product_id,
         product_unit_id |-> orders[o].items[i].product_unit_id,
         qty_change |-> qty_base(orders[o].items[i]),
         ref_type |-> "order_cancel",
         ref_id |-> o]]

\* the cancellation takes the order's entries out of the ledger
ledger_after_cancel_deleting(o) ==
    LET kept == {r \in BagToSet(ledger) : ~(r.ref_type = "order" /\ r.ref_id = o)}
    IN [r \in kept |-> ledger[r]]

\* cancel_order adds no bookkeeping entry and deletes none
ledger_after_cancel(o) == ledger

cancel_order_commit(w) ==
    /\ pc[w] = "pending"
    /\ txn[w].op = "cancel_order"
    /\ LET o == txn[w].order
           c == orders[o].customer_id
           canceled == IF txn[w].status = OrderStatus_CANCELED
                       THEN orders[o] ELSE Order_cancel(orders[o])
       IN /\ IF txn[w].status = OrderStatus_CONFIRMED
                THEN /\ movements' = movements (+) SeqToBag(restore_inventory(o))
                     /\ debt_balance' =
                           IF orders[o].is_credit /\ c # NoCustomer
                           THEN [debt_balance EXCEPT
                                    ![c] = reduce_debt(txn[w].bal, orders[o].total_amount)]
                           ELSE debt_balance
                ELSE UNCHANGED <<movements, debt_balance>>
          /\ orders' = [orders EXCEPT ![o] =
                          IF txn[w].reason
                          THEN [canceled EXCEPT !.notes = TRUE]
                          ELSE canceled]
          /\ ledger' = ledger_after_cancel(o)
    /\ Done(w, "ok")
    /\ UNCHANGED <<imports_done, draft_status>>

\* --------------------------------------------------------- record_payment
\* create_payment_entry: the payment-in row of the ledger
create_payment_entry(s, payment_id, amount) ==
    [store_id |-> s, entry_type |-> "payment_in",
     ref_type |-> "payment", ref_id |-> payment_id, amount |-> amount]

\* payment.id where record_payment reads it: the payment was added to the
\* session but not flushed, so it has no id yet
payment_id_before_flush == NoPayment

\* bookkeeping_entries.ref_id is NOT NULL
ref_id_is_null(entry) == entry.ref_id = NoPayment

record_payment(w, u, c, a) ==
    /\ pc[w] = "idle"
    /\ LET t == [NoTxn EXCEPT !.op = "record_payment", !.user = u, !.customer = c,
                              !.amount = a]
       IN IF c \notin Customers
             THEN Fail(w, t, "NotFoundError")
          ELSE IF ~can_access_store(u, customer_store[c])
             THEN Fail(w, t, "AuthorizationError")
          ELSE IF a <= 0
             THEN Fail(w, t, "ValidationError")
          ELSE Run(w, [t EXCEPT !.bal = debt_balance[c]])

record_payment_commit(w) ==
    /\ pc[w] = "pending"
    /\ txn[w].op = "record_payment"
    /\ LET c == txn[w].customer
           entry == create_payment_entry(customer_store[c], payment_id_before_flush,
                                         txn[w].amount)
       IN IF ref_id_is_null(entry)
             THEN \* the insert of the entry fails: IntegrityError, rolled back
                  /\ Done(w, "IntegrityError")
                  /\ UNCHANGED db
             ELSE /\ ledger' = ledger (+) SetToBag({entry})
                  /\ debt_balance' = [debt_balance EXCEPT
                                         ![c] = reduce_debt(txn[w].bal, txn[w].amount)]
                  /\ Done(w, "ok")
                  /\ UNCHANGED <<orders, movements, imports_done, draft_status>>

\* ---------------------------------------------------------- AIDraftService
\* the modifications a confirm request may carry: none, or the items with
\* the product unit resolved
NoModifications == <<>>
DraftModifications == {NoModifications, [items |-> <<DraftItem(3, 10000)>>]}

\* data = draft.parsed_data.copy(); data.update(modifications)
merged(d, modifications) == modifications @@ parsed_data[d]

\* DraftOrder.is_pending
is_pending(d) == draft_status[d] = DraftOrderStatus_DRAFT

\* not item.get('product_unit_id')
unresolved(item) == item.product_unit_id = NoUnit

\* `raise ValidationError(...)` in the loop over the items: the name is
\* imported further down in the same function (ai_draft_service.py:256), so
\* it is a local variable that is not bound yet when the loop runs
raise_ValidationError_in_loop == "UnboundLocalError"

\* the create_order call of confirm_draft_order
draft_create_request(d, data) ==
    [store_id |-> draft_store[d],
     customer_id |-> data.customer_id,
     is_credit |-> data.is_credit,
     items |-> [i \in DOMAIN data.items |->
                  Item(data.items[i].product_unit_id, data.items[i].quantity)],
     source_draft_order_id |-> d]

confirm_draft_order(w, u, d, modifications) ==
    /\ pc[w] = "idle"
    /\ LET t == [NoTxn EXCEPT !.op = "confirm_draft_order", !.user = u, !.draft = d]
       IN IF d \notin Drafts
             THEN Fail(w, t, "NotFoundError")
          ELSE IF ~can_access_store(u, draft_store[d])
             THEN Fail(w, t, "AuthorizationError")
          ELSE IF ~is_pending(d)
             THEN Fail(w, t, "DraftOrderAlreadyProcessedError")
          ELSE LET data == merged(d, modifications)
                   r == draft_create_request(d, data)
                   t2 == [t EXCEPT !.req = r, !.status = draft_status[d],
                                   !.number = generate_order_number(draft_store[d])]
               IN IF \E i \in DOMAIN data.items : unresolved(data.items[i])
                     THEN Fail(w, [t EXCEPT !.req = data], raise_ValidationError_in_loop)
                  ELSE IF data.items = <<>>
                     THEN Fail(w, t, "ValidationError")
                  \* OrderService.create_order
                  ELSE IF r.customer_id # NoCustomer /\ customer_store[r.customer_id] # r.store_id
                     THEN Fail(w, t2, "NotFoundError")
                  ELSE IF credit_without_customer(r)
                     THEN Fail(w, t2, "ValidationError")
                  ELSE IF ~create_order_items_ok(r)
                     THEN Fail(w, t2, "ValidationError")
                  ELSE /\ Len(orders) + Cardinality(Pending("confirm_draft_order")) < MaxOrders
                       /\ Run(w, t2)

\* the commit at the end of OrderService.create_order: the order is stored
\* while the draft is still DRAFT
confirm_draft_order_commit(w) ==
    /\ pc[w] = "pending"
    /\ txn[w].op = "confirm_draft_order"
    /\ IF order_number_taken(txn[w].number)
          THEN /\ Done(w, "IntegrityError")
               /\ UNCHANGED db
          ELSE /\ orders' = Append(orders, Order_new(txn[w].req, txn[w].number, txn[w].user))
               /\ pc' = [pc EXCEPT ![w] = "created"]
               /\ UNCHANGED <<movements, ledger, debt_balance, imports_done, draft_status,
                               txn, result>>

\* draft.confirm(current_user.id) and the second commit
DraftOrder_confirm(w) ==
    /\ pc[w] = "created"
    /\ txn[w].op = "confirm_draft_order"
    /\ draft_status' = [draft_status EXCEPT ![txn[w].draft] = DraftOrderStatus_CONFIRMED]
    /\ Done(w, "ok")
    /\ UNCHANGED <<orders, movements, ledger, debt_balance, imports_done>>

reject_draft_order(w, u, d) ==
    /\ pc[w] = "idle"
    /\ LET t == [NoTxn EXCEPT !.op = "reject_draft_order", !.user = u, !.draft = d]
       IN IF d \notin Drafts
             THEN Fail(w, t, "NotFoundError")
          ELSE IF ~can_access_store(u, draft_store[d])
             THEN Fail(w, t, "AuthorizationError")
          ELSE IF ~is_pending(d)
             THEN Fail(w, t, "DraftOrderAlreadyProcessedError")
          ELSE Run(w, [t EXCEPT !.status = draft_status[d]])

\* draft.reject(current_user.id, reason) and the commit
reject_draft_order_commit(w) ==
    /\ pc[w] = "pending"
    /\ txn[w].op = "reject_draft_order"
    /\ draft_status' = [draft_status EXCEPT ![txn[w].draft] = DraftOrderStatus_REJECTED]
    /\ Done(w, "ok")
    /\ UNCHANGED <<orders, movements, ledger, debt_balance, imports_done>>

\* -------------------------------------------------------- specifications
Init ==
    /\ orders = <<>>
    /\ movements = EmptyBag
    /\ ledger = EmptyBag
    /\ debt_balance = [c \in Customers |-> 0]
    /\ imports_done = 0
    /\ draft_status = [d \in Drafts |-> DraftOrderStatus_DRAFT]
    /\ pc = [w \in Workers |-> "idle"]
    /\ txn = [w \in Workers |-> NoTxn]
    /\ result = [w \in Workers |-> "none"]

OrderIds == 1 .. MaxOrders

\* a request of the API, with create-order bodies drawn from Creates
RequestOf(w, Creates, Reasons) ==
    \/ \E u \in Users, r \in Creates : create_order(w, u, r)
    \/ \E u \in Users, r \in ImportRequests : import_inventory(w, u, r)
    \/ \E u \in Users, o \in OrderIds : confirm_order(w, u, o)
    \/ \E u \in Users, o \in OrderIds, reason \in Reasons : cancel_order(w, u, o, reason)
    \/ \E u \in Users, c \in Customers, a \in PaymentAmounts : record_payment(w, u, c, a)

Request(w, Reasons) == RequestOf(w, CreateRequests, Reasons)

Commit(w) ==
    \/ create_order_commit(w)
    \/ import_inventory_commit(w)
    \/ confirm_order_commit(w)
    \/ cancel_order_commit(w)
    \/ record_payment_commit(w)

\* A response is handed over before anything else happens, so that txn and
\* result of a worker describe the request that ended in the last step.
NoReply == \A v \in Workers : pc[v] # "replied"

\* The workers are interchangeable: a request goes to the first idle one.
FirstIdle(w) == pc[w] = "idle" /\ \A v \in Workers : v < w => pc[v] # "idle"

\* Requests served by concurrent workers.  The reason of a cancellation only
\* feeds the notes of the order; concurrent cancellations are sent without.
Next ==
    \E w \in Workers :
        \/ NoReply /\ FirstIdle(w) /\ Request(w, {FALSE})
        \/ NoReply /\ Commit(w)
        \/ reply(w)

Spec == Init /\ [][Next]_vars

\* Requests served one at a time.
Serial == \A v \in Workers : pc[v] = "idle"

SeqNext ==
    \E w \in Workers :
        \/ Serial /\ FirstIdle(w) /\ Request(w, BOOLEAN)
        \/ NoReply /\ Commit(w)
        \/ reply(w)

SeqSpec == Init /\ [][SeqNext]_vars

\* Order.complete() has no caller in the services or controllers.  ModelSpec
\* is SeqSpec plus a direct call of it (order.complete() followed by save(),
\* as a script or shell on the model layer can do) on a stored CONFIRMED
\* order, the one state the lifecycle completes an order from.
complete(o) ==
    /\ Serial
    /\ o \in DOMAIN orders
    /\ orders[o].status = OrderStatus_CONFIRMED
    /\ orders' = [orders EXCEPT ![o] = Order_complete(orders[o])]
    /\ UNCHANGED <<movements, ledger, debt_balance, imports_done, draft_status,
                    pc, txn, result>>

ModelNext ==
    \/ SeqNext
    \/ \E o \in OrderIds : complete(o)

ModelSpec == Init /\ [][ModelNext]_vars

\* Requests served one at a time to two stores, each with orders of its own.
AccessNext ==
    \E w \in Workers :
        \/ Serial /\ FirstIdle(w) /\ RequestOf(w, AccessRequests, {FALSE})
        \/ NoReply /\ Commit(w)
        \/ reply(w)

AccessSpec == Init /\ [][AccessNext]_vars

\* Requests served one at a time, with the create-order bodies that
\* exercise the arithmetic of create_order.
PricingNext ==
    \E w \in Workers :
        \/ Serial /\ FirstIdle(w) /\ RequestOf(w, PricingRequests, BOOLEAN)
        \/ NoReply /\ Commit(w)
        \/ reply(w)

PricingSpec == Init /\ [][PricingNext]_vars

\* Requests served one at a time, with the create-order bodies that
\* exercise the stock arithmetic of confirm_order.
StockNext ==
    \E w \in Workers :
        \/ Serial /\ FirstIdle(w) /\ RequestOf(w, StockRequests, {FALSE})
        \/ NoReply /\ Commit(w)
        \/ reply(w)

StockSpec == Init /\ [][StockNext]_vars

\* The draft-order routes, served by concurrent workers.
DraftIds == Drafts \cup {NoDraft}

DraftRequest(w) ==
    \/ \E u \in Users, d \in DraftIds, m \in DraftModifications :
          confirm_draft_order(w, u, d, m)
    \/ \E u \in Users, d \in DraftIds : reject_draft_order(w, u, d)

DraftCommit(w) ==
    \/ confirm_draft_order_commit(w)
    \/ DraftOrder_confirm(w)
    \/ reject_draft_order_commit(w)

DraftNext ==
    \E w \in Workers :
        \/ NoReply /\ FirstIdle(w) /\ DraftRequest(w)
        \/ NoReply /\ DraftCommit(w)
        \/ reply(w)

DraftSpec == Init /\ [][DraftNext]_vars

\* The draft-order routes, served one request at a time.
DraftSeqNext ==
    \E w \in Workers :
        \/ Serial /\ FirstIdle(w) /\ DraftRequest(w)
        \/ NoReply /\ DraftCommit(w)
        \/ reply(w)

DraftSeqSpec == Init /\ [][DraftSeqNext]_vars

\* ------------------------------------------------------------------ claims
\* what the claims speak about
Accessible(u, o) == o \in DOMAIN orders /\ can_access_store(u, orders[o].store_id)

Credit(o) == orders[o].is_credit /\ orders[o].customer_id # NoCustomer

\* base units (times QtyScale) the lines of order o ask of product p
RECURSIVE SumRequired(_, _)
SumRequired(items, p) ==
    IF items = <<>> THEN 0
    ELSE (IF Head(items).product_id = p
          THEN Head(items).quantity * conversion_factor[Head(items).product_unit_id]
          ELSE 0) + SumRequired(Tail(items), p)

\* a line that asks for more base units than the stock of its product
Short(item) ==
    item.quantity * conversion_factor[item.product_unit_id]
        > current_stock(item.product_id) * QtyScale

\* how many rows of the bag B are in the set S
CountRows(B, S) == BagCardinality([r \in S |-> B[r]])

\* the movement rows of kind ref_type that refer to order o
RowsOf(B, ref_type, o) == {r \in BagToSet(B) : r.ref_type = ref_type /\ r.ref_id = o}

StockOutCount(o) == CountRows(movements, RowsOf(movements, "order", o))

LedgerCount(o) == CountRows(ledger, RowsOf(ledger, "order", o))

\* the net effect of order o on the stock of product p
NetOfOrder(B, o, p) ==
    SumQty(B, {r \in RowsOf(B, "order", o) \cup RowsOf(B, "order_cancel", o) :
                 r.product_id = p})

\* the workers that take a request for op in this step
Takes(op) == {w \in Workers : pc[w] = "idle" /\ txn'[w].op = op}

Replied(w, op, res) == pc[w] = "replied" /\ txn[w].op = op /\ result[w] = res

\* C1: two distinct NEW orders of a store confirmed concurrently, each asking
\* for the entire remaining stock of a product: only one confirmation
\* succeeds.  Stated on the step that ends the later of the two: the request
\* saw stock seen[p] and asks for all of it, another order took exactly that
\* stock in the meantime, so it must end with InsufficientStock and write no
\* movement.
LostRace(w) ==
    LET o2 == txn[w].order
    IN /\ orders[o2].status = OrderStatus_NEW
       /\ \E p \in Products, o1 \in DOMAIN orders \ {o2} :
             /\ orders[o1].store_id = orders[o2].store_id
             /\ orders[o1].status = OrderStatus_CONFIRMED
             /\ txn[w].seen[p] > 0
             /\ SumRequired(orders[o2].items, p) = txn[w].seen[p] * QtyScale
             /\ SumRequired(orders[o1].items, p) = txn[w].seen[p] * QtyScale
             /\ current_stock(p) = 0

C1_OneOfTwoRacingConfirmsFails ==
    [][\A w \in Workers :
          (confirm_order_commit(w) /\ LostRace(w))
              => /\ result'[w] = "InsufficientStockError"
                 /\ movements' = movements
                 /\ \A p \in Products : current_stock(p)' >= 0]_vars

\* C2: confirming a NEW order with a line that asks for more than the stock
\* of its product fails with InsufficientStock and writes nothing (no
\* movement, no ledger entry, no debt change, the order stays NEW).
C2_InsufficientStockWritesNothing ==
    [][\A w \in Takes("confirm_order"), o \in DOMAIN orders :
          (/\ orders[o].status = OrderStatus_NEW
           /\ \E i \in DOMAIN orders[o].items : Short(orders[o].items[i]))
              => \A u \in Users :
                    (Accessible(u, o) /\ confirm_order(w, u, o))
                        => /\ Replied(w, "confirm_order", "InsufficientStockError")'
                           /\ UNCHANGED db]_vars

\* witness of C2: a two-line order was refused although one of its lines
\* would have passed
C2_Witness ==
    \E w \in Workers :
        /\ Replied(w, "confirm_order", "InsufficientStockError")
        /\ LET o == orders[txn[w].order]
           IN /\ o.status = OrderStatus_NEW
              /\ \E i, j \in DOMAIN o.items : Short(o.items[i]) /\ ~Short(o.items[j])
        /\ StockOutCount(txn[w].order) = 0

\* C3: whatever was imported, created, confirmed and canceled, in whatever
\* interleaving, the stock by product (Product.current_stock) and the stock
\* by store and product (get_product_stock) of the product's own store agree.
C3_StockProjectionsAgree ==
    \A p \in Products : current_stock(p) = get_product_stock(product_store[p], p)

\* witness of C3: a product with import, stock-out and restoring movements
C3_Witness ==
    \E p \in Products :
        /\ \E r \in BagToSet(movements) : r.product_id = p /\ r.ref_type = "import"
        /\ \E r \in BagToSet(movements) : r.product_id = p /\ r.ref_type = "order"
        /\ \E r \in BagToSet(movements) : r.product_id = p /\ r.ref_type = "order_cancel"
        /\ current_stock(p) > 0

\* C4: confirming an order that is not NEW fails with OrderAlreadyConfirmed
\* and changes nothing; so with requests served one at a time an order gets
\* the effects of its confirmation at most once.
C4_ConfirmOnlyNew ==
    /\ [][\A w \in Takes("confirm_order"), o \in DOMAIN orders :
             orders[o].status # OrderStatus_NEW
                 => \A u \in Users :
                       (Accessible(u, o) /\ confirm_order(w, u, o))
                           => /\ Replied(w, "confirm_order", "OrderAlreadyConfirmedError")'
                              /\ UNCHANGED db]_vars
    /\ [](\A o \in DOMAIN orders :
             /\ StockOutCount(o) <= Len(orders[o].items)
             /\ LedgerCount(o) <= 1)

\* witness of C4: a confirmed order, with one set of effects, refused again
C4_Witness ==
    \E w \in Workers :
        /\ Replied(w, "confirm_order", "OrderAlreadyConfirmedError")
        /\ orders[txn[w].order].status = OrderStatus_CONFIRMED
        /\ StockOutCount(txn[w].order) = Len(orders[txn[w].order].items)
        /\ LedgerCount(txn[w].order) = 1

\* C5: an order confirmed by two concurrent requests is confirmed once: it
\* never has more stock-out movements than lines, nor more than one ledger
\* entry.
C5_ConfirmedExactlyOnce ==
    \A o \in DOMAIN orders :
        /\ StockOutCount(o) <= Len(orders[o].items)
        /\ LedgerCount(o) <= 1

\* C6: canceling a CONFIRMED credit order of total T for a customer whose
\* balance the request read as B leaves the balance at B - T if B >= T and
\* at 0 otherwise; it is never negative, also after a second reduce_debt(T).
C6_CancelReducesDebtFlooredAtZero ==
    [][\A w \in Workers :
          (/\ cancel_order_commit(w)
           /\ txn[w].status = OrderStatus_CONFIRMED
           /\ Credit(txn[w].order))
              => LET c == orders[txn[w].order].customer_id
                     T == orders[txn[w].order].total_amount
                     B == txn[w].bal
                 IN /\ debt_balance'[c] = IF B >= T THEN B - T ELSE 0
                    /\ debt_balance'[c] >= 0
                    /\ reduce_debt(debt_balance'[c], T) >= 0]_vars

\* witness of C6: a cancellation that found less debt than the order's total
C6_Witness ==
    \E w \in Workers :
        /\ Replied(w, "cancel_order", "ok")
        /\ txn[w].status = OrderStatus_CONFIRMED
        /\ Credit(txn[w].order)
        /\ txn[w].bal > 0
        /\ txn[w].bal < orders[txn[w].order].total_amount
        /\ debt_balance[orders[txn[w].order].customer_id] = 0

\* C7: canceling a CONFIRMED order writes one positive movement per line that
\* refers to the cancellation, and brings the net effect of the order on
\* every product to zero; canceling a NEW order writes no movement and
\* changes no debt.
C7_CancelRestoresStock ==
    [][\A w \in Workers :
          cancel_order_commit(w)
              => LET o == txn[w].order
                 IN IF txn[w].status = OrderStatus_CONFIRMED
                    THEN /\ movements \sqsubseteq movements'
                         /\ LET added == movements' (-) movements
                            IN /\ BagCardinality(added) = Len(orders[o].items)
                               /\ \A r \in BagToSet(added) :
                                     /\ r.ref_type = "order_cancel"
                                     /\ r.ref_id = o
                                     /\ r.qty_change > 0
                         /\ \A p \in Products : NetOfOrder(movements, o, p)' = 0
                    ELSE /\ movements' = movements
                         /\ debt_balance' = debt_balance]_vars

\* the round trip itself: a canceled order has no net effect on any stock
CanceledOrderNetZero ==
    \A o \in DOMAIN orders :
        orders[o].status = OrderStatus_CANCELED
            => \A p \in Products : NetOfOrder(movements, o, p) = 0

\* C8: CANCELED is terminal: a confirm or cancel request on a CANCELED order
\* fails with a transition error and changes nothing.
C8_CanceledIsTerminal ==
    [][\A w \in Takes("confirm_order") \cup Takes("cancel_order"), o \in DOMAIN orders :
          orders[o].status = OrderStatus_CANCELED
              => \A u \in Users :
                    (/\ Accessible(u, o)
                     /\ \/ confirm_order(w, u, o)
                        \/ \E reason \in BOOLEAN : cancel_order(w, u, o, reason))
                        => /\ pc'[w] = "replied"
                           /\ result'[w] \in {"OrderAlreadyConfirmedError", "ValidationError"}
                           /\ UNCHANGED db]_vars

\* C9: canceling a COMPLETED order fails with ValidationError and changes
\* nothing (status, notes, movements, ledger, debt).
C9_CompletedCannotBeCanceled ==
    [][\A w \in Takes("cancel_order"), o \in DOMAIN orders :
          orders[o].status = OrderStatus_COMPLETED
              => \A u \in Users, reason \in BOOLEAN :
                    (Accessible(u, o) /\ cancel_order(w, u, o, reason))
                        => /\ Replied(w, "cancel_order", "ValidationError")'
                           /\ UNCHANGED db]_vars

\* witness of C9: the refusal, for an order that had been confirmed
C9_Witness ==
    \E w \in Workers :
        /\ Replied(w, "cancel_order", "ValidationError")
        /\ orders[txn[w].order].status = OrderStatus_COMPLETED
        /\ StockOutCount(txn[w].order) > 0

\* C10: CONFIRMED -> COMPLETED is a transition of the system: an order that
\* is CONFIRMED, with no request running, accepts a request other than a
\* cancellation (one that completes it).
AcceptsCompletion(o) ==
    \/ orders[o].status = OrderStatus_COMPLETED
    \/ \E w \in Workers :
          pc[w] = "pending" /\ txn[w].order = o /\ txn[w].op \notin {"cancel_order", "create_order", "import_inventory"}

C10_ConfirmedCanComplete ==
    \A o \in DOMAIN orders :
        (orders[o].status = OrderStatus_CONFIRMED /\ Serial)
            => ENABLED (Next /\ AcceptsCompletion(o)')

\* no request takes an order to COMPLETED
NoOrderCompleted == \A o \in DOMAIN orders : orders[o].status # OrderStatus_COMPLETED

\* C11: confirming a credit order of total T for a customer with a positive
\* debt limit L and balance B with B + T > L is rejected with
\* InsufficientBalance and leaves stock, ledger, debt and the order
\* unchanged; nobody is rejected for this reason without a positive limit.
OverLimit(o) ==
    /\ Credit(o)
    /\ debt_limit[orders[o].customer_id] > 0
    /\ debt_balance[orders[o].customer_id] + orders[o].total_amount
           > debt_limit[orders[o].customer_id]

C11_DebtLimitEnforced ==
    [][\A w \in Takes("confirm_order"), o \in DOMAIN orders :
          /\ (/\ orders[o].status = OrderStatus_NEW
              /\ OverLimit(o)
              /\ \A i \in DOMAIN orders[o].items : ~Short(orders[o].items[i]))
                 => \A u \in Users :
                       (Accessible(u, o) /\ confirm_order(w, u, o))
                           => /\ Replied(w, "confirm_order", "InsufficientBalanceError")'
                              /\ UNCHANGED db
          /\ (txn'[w].order = o /\ result'[w] = "InsufficientBalanceError")
                 => Credit(o) /\ debt_limit[orders[o].customer_id] > 0]_vars

\* C12: after any sequence of create, confirm, cancel and payment requests,
\* with whatever quantities and discounts create_order accepts, no customer
\* has a negative debt balance.
C12_DebtNeverNegative == \A c \in Customers : debt_balance[c] >= 0

\* C13: a confirmation of a credit order of total T that commits while
\* another request changed the same customer's balance still increases the
\* balance by exactly T (two concurrent confirmations add T1 + T2).
C13_NoLostDebtUpdate ==
    [][\A w \in Workers :
          (/\ confirm_order_commit(w)
           /\ orders[txn[w].order].status = OrderStatus_NEW
           /\ Credit(txn[w].order))
              => LET c == orders[txn[w].order].customer_id
                 IN debt_balance'[c] = debt_balance[c] + orders[txn[w].order].total_amount]_vars

\* C14: a create-order request for a credit sale without a customer is
\* rejected with ValidationError and stores nothing; so every stored credit
\* order has a customer, and that customer belongs to the order's store.
C14_CreditRequiresCustomer ==
    /\ [][\A w \in Takes("create_order"), u \in Users :
             LET r == txn'[w].req
             IN (/\ r.is_credit
                 /\ r.customer_id = NoCustomer
                 /\ can_access_store(u, r.store_id)
                 /\ create_order(w, u, r))
                    => /\ Replied(w, "create_order", "ValidationError")'
                       /\ UNCHANGED db]_vars
    /\ [](\A o \in DOMAIN orders :
             orders[o].is_credit
                 => /\ orders[o].customer_id # NoCustomer
                    /\ customer_store[orders[o].customer_id] = orders[o].store_id)

\* witness of C14: the refusal, while a credit order with its customer is stored
C14_Witness ==
    /\ \E w \in Workers :
          /\ Replied(w, "create_order", "ValidationError")
          /\ txn[w].req.is_credit
          /\ txn[w].req.customer_id = NoCustomer
    /\ \E o \in DOMAIN orders : Credit(o)

\* C15: a create-order request that succeeds stores the order in status NEW
\* and nothing else: no movement, no ledger entry, no change of any stock or
\* debt balance, no change of another order.
C15_CreateHasNoLedgerEffect ==
    [][\A w \in Workers :
          (create_order_commit(w) /\ result'[w] = "ok")
              => /\ Len(orders') = Len(orders) + 1
                 /\ orders'[Len(orders')].status = OrderStatus_NEW
                 /\ SubSeq(orders', 1, Len(orders)) = orders
                 /\ movements' = movements
                 /\ ledger' = ledger
                 /\ debt_balance' = debt_balance
                 /\ \A p \in Products : current_stock(p)' = current_stock(p)]_vars

\* witness of C15: an order created while stock, ledger and debt are not empty
C15_Witness ==
    /\ \E w \in Workers : Replied(w, "create_order", "ok")
    /\ \E p \in Products : current_stock(p) > 0
    /\ ledger # EmptyBag
    /\ \E c \in Customers : debt_balance[c] > 0
    /\ orders[Len(orders)].status = OrderStatus_NEW

\* C16: a create-order request with a line of quantity <= 0 is rejected with
\* ValidationError and stores nothing; so every stored line has a positive
\* quantity and every stock-out movement of a confirmation is negative.
C16_NonPositiveQuantityRejected ==
    /\ [][\A w \in Takes("create_order"), u \in Users :
             LET r == txn'[w].req
             IN (/\ \E i \in DOMAIN r.items : r.items[i].quantity <= 0
                 /\ can_access_store(u, r.store_id)
                 /\ create_order(w, u, r))
                    => /\ Replied(w, "create_order", "ValidationError")'
                       /\ UNCHANGED db]_vars
    /\ [](/\ \A o \in DOMAIN orders :
                \A i \in DOMAIN orders[o].items : orders[o].items[i].quantity > 0
          /\ \A r \in BagToSet(movements) : r.ref_type = "order" => r.qty_change < 0)

\* C17: the stored total_amount of every order is the sum of the stored
\* line_total of its lines.
C17_TotalIsSumOfLines ==
    \A o \in DOMAIN orders :
        orders[o].total_amount
            = SumSeq([i \in DOMAIN orders[o].items |-> orders[o].items[i].line_total])

\* C18: no two stored orders carry the same order_number, also when two
\* create-order requests of a store run concurrently and read the same count.
C18_OrderNumbersUnique ==
    \A i, j \in DOMAIN orders :
        orders[i].order_number = orders[j].order_number => i = j

\* witness of C18: a create-order request that read the same count as
\* another one and lost
C18_Witness ==
    \E w \in Workers :
        /\ Replied(w, "create_order", "IntegrityError")
        /\ \E o \in DOMAIN orders :
              /\ orders[o].order_number = txn[w].number
              /\ orders[o].store_id = txn[w].req.store_id

\* C19: a create, confirm or cancel request of an actor who cannot access
\* the store (not an admin, not an owner of it, not an employee assigned to
\* it) fails with AuthorizationError and changes nothing; and no request of
\* such an actor ever changes an order, movement, ledger entry or debt
\* balance of that store.
Outsider(u, s) ==
    /\ user_role[u] # Role_ADMIN
    /\ ~(user_role[u] = Role_OWNER /\ s \in owned_stores[u])
    /\ ~(user_role[u] = Role_EMPLOYEE /\ user_store[u] = s)

\* the rows of a bag that belong to store s
RowsOfStore(B, s) ==
    LET S == {r \in BagToSet(B) : r.store_id = s} IN [r \in S |-> B[r]]

StoreState(s) ==
    <<[o \in {i \in DOMAIN orders : orders[i].store_id = s} |-> orders[o]],
      RowsOfStore(movements, s),
      RowsOfStore(ledger, s),
      [c \in {d \in Customers : customer_store[d] = s} |-> debt_balance[c]]>>

C19_NoAccessNoEffect ==
    /\ [][\A w \in Takes("create_order"), u \in Users :
             (Outsider(u, txn'[w].req.store_id) /\ create_order(w, u, txn'[w].req))
                 => /\ Replied(w, "create_order", "AuthorizationError")'
                    /\ UNCHANGED db]_vars
    /\ [][\A w \in Takes("confirm_order") \cup Takes("cancel_order"), u \in Users :
             LET o == txn'[w].order
             IN (/\ o \in DOMAIN orders
                 /\ Outsider(u, orders[o].store_id)
                 /\ confirm_order(w, u, o) \/ cancel_order(w, u, o, FALSE))
                    => /\ pc'[w] = "replied"
                       /\ result'[w] = "AuthorizationError"
                       /\ UNCHANGED db]_vars
    /\ [][\A w \in Workers, s \in Stores :
             (pc[w] = "pending" /\ pc'[w] = "replied" /\ Outsider(txn[w].user, s))
                 => StoreState(s)' = StoreState(s)]_vars

\* witness of C19: an employee of store 2 is refused the confirmation of an
\* order of store 1 that is ready to be confirmed, and store 2 has a
\* confirmed order of its own
C19_Witness ==
    \E w \in Workers :
        /\ Replied(w, "confirm_order", "AuthorizationError")
        /\ LET o == txn[w].order
           IN /\ orders[o].status = OrderStatus_NEW
              /\ \A i \in DOMAIN orders[o].items : ~Short(orders[o].items[i])
              /\ \E o2 \in DOMAIN orders :
                    /\ orders[o2].store_id # orders[o].store_id
                    /\ orders[o2].status = OrderStatus_CONFIRMED
                    /\ can_access_store(txn[w].user, orders[o2].store_id)

\* C20: a payment of a > 0 against the balance B succeeds and commits the
\* new balance max(0, B - a) together with exactly one payment-in ledger
\* entry of amount a that refers to the payment record.
C20_PaymentCommits ==
    [][\A w \in Workers :
          record_payment_commit(w)
              => LET c == txn[w].customer
                     added == ledger' (-) ledger
                 IN /\ result'[w] = "ok"
                    /\ debt_balance'[c] = Max(0, txn[w].bal - txn[w].amount)
                    /\ ledger \sqsubseteq ledger'
                    /\ BagCardinality(added) = 1
                    /\ \A e \in BagToSet(added) :
                          /\ e.entry_type = "payment_in"
                          /\ e.amount = txn[w].amount
                          /\ e.ref_type = "payment"
                          /\ e.ref_id # NoPayment]_vars

\* no payment is ever committed
NoPaymentCommitted ==
    /\ \A e \in BagToSet(ledger) : e.ref_type # "payment"
    /\ \A w \in Workers : ~Replied(w, "record_payment", "ok")

\* C21: after any sequence or interleaving of confirm and reject requests on
\* a draft, at most one order refers to the draft, and only if the draft is
\* CONFIRMED; a request on a draft that is CONFIRMED or REJECTED fails with
\* DraftOrderAlreadyProcessedError and changes nothing, and such a draft is
\* never processed again: its status stays and no order is added for it.
OrdersOfDraft(d) == {o \in DOMAIN orders : orders[o].source_draft_order_id = d}

Processed(d) == draft_status[d] # DraftOrderStatus_DRAFT

DraftHasAtMostOneOrder ==
    \A d \in Drafts :
        /\ Cardinality(OrdersOfDraft(d)) <= 1
        /\ OrdersOfDraft(d) # {} => draft_status[d] = DraftOrderStatus_CONFIRMED

ProcessedDraftIsRefused ==
    \A w \in Takes("confirm_draft_order") \cup Takes("reject_draft_order"), d \in Drafts :
        Processed(d)
            => \A u \in Users :
                  (/\ can_access_store(u, draft_store[d])
                   /\ \/ \E m \in DraftModifications : confirm_draft_order(w, u, d, m)
                      \/ reject_draft_order(w, u, d))
                      => /\ pc'[w] = "replied"
                         /\ result'[w] = "DraftOrderAlreadyProcessedError"
                         /\ UNCHANGED db

ProcessedDraftStays ==
    \A d \in Drafts :
        Processed(d) => /\ draft_status'[d] = draft_status[d]
                        /\ OrdersOfDraft(d)' = OrdersOfDraft(d)

C21_DraftProcessedOnce ==
    /\ [](Serial => DraftHasAtMostOneOrder)
    /\ [][ProcessedDraftIsRefused]_vars
    /\ [][ProcessedDraftStays]_vars

\* the part of C21 that every interleaving keeps: a request that finds the
\* draft processed is refused and changes nothing
C21_ProcessedDraftIsRefused == [][ProcessedDraftIsRefused]_vars

\* C28: confirming a pending draft that contains an item without a resolved
\* product_unit_id is rejected with ValidationError, creates no order and
\* leaves the draft in status DRAFT.
HasUnresolvedItem(d, m) ==
    \E i \in DOMAIN merged(d, m).items : unresolved(merged(d, m).items[i])

C28_UnresolvedItemIsValidationError ==
    [][\A w \in Takes("confirm_draft_order"), u \in Users, d \in Drafts,
          m \in DraftModifications :
          (/\ is_pending(d)
           /\ can_access_store(u, draft_store[d])
           /\ HasUnresolvedItem(d, m)
           /\ confirm_draft_order(w, u, d, m))
              => /\ Replied(w, "confirm_draft_order", "ValidationError")'
                 /\ UNCHANGED db]_vars

\* what the code keeps of C28: the request ends with an error, no order is
\* created and the draft stays DRAFT
UnresolvedItemChangesNothing ==
    [][\A w \in Takes("confirm_draft_order"), u \in Users, d \in Drafts,
          m \in DraftModifications :
          (/\ is_pending(d)
           /\ can_access_store(u, draft_store[d])
           /\ HasUnresolvedItem(d, m)
           /\ confirm_draft_order(w, u, d, m))
              => /\ pc'[w] = "replied"
                 /\ result'[w] # "ok"
                 /\ orders' = orders
                 /\ draft_status'[d] = DraftOrderStatus_DRAFT]_vars

\* C22: a successful confirmation writes exactly one movement per order line,
\* with qty_change = -(quantity x conversion factor of the line's unit), the
\* line's product, the order's store and a reference to the order, and no
\* other movement.
MovementOfLine(r, o, item) ==
    /\ r.store_id = orders[o].store_id
    /\ r.product_id = item.product_id
    /\ r.product_unit_id = item.product_unit_id
    /\ r.ref_type = "order"
    /\ r.ref_id = o
    /\ r.qty_change * QtyScale = -(item.quantity * conversion_factor[item.product_unit_id])

C22_OneMovementPerLine ==
    [][\A w \in Workers :
          confirm_order_commit(w)
              => LET o == txn[w].order
                     added == movements' (-) movements
                 IN /\ movements \sqsubseteq movements'
                    /\ BagCardinality(added) = Len(orders[o].items)
                    /\ \A r \in BagToSet(added) :
                          \E i \in DOMAIN orders[o].items :
                              MovementOfLine(r, o, orders[o].items[i])
                    /\ \A i \in DOMAIN orders[o].items :
                          \E r \in BagToSet(added) :
                              MovementOfLine(r, o, orders[o].items[i])]_vars

\* one movement per line, each within half a unit of the last stored digit
\* of the line's base quantity
OneRoundedMovementPerLine ==
    [][\A w \in Workers :
          confirm_order_commit(w)
              => LET o == txn[w].order
                     added == movements' (-) movements
                 IN /\ movements \sqsubseteq movements'
                    /\ BagCardinality(added) = Len(orders[o].items)
                    /\ \A r \in BagToSet(added) :
                          /\ r.ref_type = "order" /\ r.ref_id = o
                          /\ r.store_id = orders[o].store_id
                          /\ \E i \in DOMAIN orders[o].items :
                                LET item == orders[o].items[i]
                                    d == r.qty_change * QtyScale + required(item)
                                IN /\ r.product_id = item.product_id
                                   /\ r.product_unit_id = item.product_unit_id
                                   /\ 2 * d <= QtyScale /\ 2 * d >= -QtyScale]_vars

\* C23: a successful confirmation appends exactly one ledger entry that
\* refers to the order, debt-in for a credit sale and revenue otherwise, of
\* the order's total_amount; with requests served one at a time every order
\* that was ever confirmed has exactly one such entry and every other order
\* has none.
EntryOfOrder(e, o) ==
    /\ e.ref_type = "order"
    /\ e.ref_id = o
    /\ e.store_id = orders[o].store_id
    /\ e.entry_type = IF orders[o].is_credit THEN "debt_in" ELSE "revenue"
    /\ e.amount = orders[o].total_amount

\* Order.confirm sets confirmed_by_user_id and nothing clears it
EverConfirmed(o) == orders[o].confirmed_by_user_id # NoUser

C23_OneLedgerEntryPerConfirmation ==
    /\ [][\A w \in Workers :
             confirm_order_commit(w)
                 => LET added == ledger' (-) ledger
                    IN /\ ledger \sqsubseteq ledger'
                       /\ BagCardinality(added) = 1
                       /\ \A e \in BagToSet(added) : EntryOfOrder(e, txn[w].order)]_vars
    /\ [](\A o \in DOMAIN orders :
             /\ LedgerCount(o) = IF EverConfirmed(o) THEN 1 ELSE 0
             /\ \A e \in RowsOf(ledger, "order", o) : EntryOfOrder(e, o))

\* witness of C23: a credit order is confirmed while a cash order that was
\* confirmed and canceled keeps its revenue entry
C23_Witness ==
    \E w \in Workers :
        /\ Replied(w, "confirm_order", "ok")
        /\ Credit(txn[w].order)
        /\ \E e \in RowsOf(ledger, "order", txn[w].order) : e.entry_type = "debt_in"
        /\ \E o \in DOMAIN orders :
              /\ ~orders[o].is_credit
              /\ orders[o].status = OrderStatus_CANCELED
              /\ EverConfirmed(o)
              /\ \E e \in RowsOf(ledger, "order", o) : e.entry_type = "revenue"

\* C24: with requests served one at a time, a successful confirmation of a
\* credit order of total T adds exactly T to the balance of the order's
\* customer and changes no other balance; the confirmation of a cash order
\* changes no balance.
C24_ConfirmAddsDebt ==
    [][\A w \in Workers :
          confirm_order_commit(w)
              => LET o == txn[w].order
                     c == orders[o].customer_id
                 IN IF orders[o].is_credit
                    THEN /\ c # NoCustomer
                         /\ debt_balance'[c] = debt_balance[c] + orders[o].total_amount
                         /\ \A d \in Customers \ {c} : debt_balance'[d] = debt_balance[d]
                    ELSE debt_balance' = debt_balance]_vars

\* witness of C24: a credit order confirmed while another customer owes
C24_Witness ==
    \E w \in Workers :
        /\ Replied(w, "confirm_order", "ok")
        /\ Credit(txn[w].order)
        /\ orders[txn[w].order].total_amount > 0
        /\ debt_balance[orders[txn[w].order].customer_id]
               = txn[w].bal + orders[txn[w].order].total_amount
        /\ \E d \in Customers \ {orders[txn[w].order].customer_id} : debt_balance[d] > 0

\* C25: in every committed state, under any interleaving of requests, the
\* movements of an order match its status: a NEW order has no movement and
\* no ledger entry; the movements of a CONFIRMED order sum, per product, to
\* minus the base quantity of its lines; those of a CANCELED order to zero.
C25_MovementsMatchStatus ==
    \A o \in DOMAIN orders :
        /\ orders[o].status = OrderStatus_NEW
               => /\ RowsOf(movements, "order", o) = {}
                  /\ RowsOf(movements, "order_cancel", o) = {}
                  /\ LedgerCount(o) = 0
        /\ orders[o].status = OrderStatus_CONFIRMED
               => \A p \in Products :
                     NetOfOrder(movements, o, p) * QtyScale = -SumRequired(orders[o].items, p)
        /\ orders[o].status = OrderStatus_CANCELED
               => \A p \in Products : NetOfOrder(movements, o, p) = 0

\* C26: movements and ledger entries are append-only: no step of a create,
\* confirm, cancel, import or payment request changes or removes a stored
\* row, so both tables only grow; a cancellation leaves the order's revenue
\* or debt-in entry in place.
C26_AppendOnly ==
    [][/\ movements \sqsubseteq movements'
       /\ ledger \sqsubseteq ledger']_vars

\* witness of C26: an order was canceled and its ledger entry is still there
C26_Witness ==
    \E w \in Workers :
        /\ Replied(w, "cancel_order", "ok")
        /\ txn[w].status = OrderStatus_CONFIRMED
        /\ orders[txn[w].order].status = OrderStatus_CANCELED
        /\ LedgerCount(txn[w].order) >= 1
        /\ RowsOf(movements, "order", txn[w].order) # {}
        /\ RowsOf(movements, "order_cancel", txn[w].order) # {}

\* C27: a create-order request whose generated number collides with that of
\* a concurrent request is retried: the collision does not end the request
\* with an error (an error is surfaced only after bounded retries).
C27_CollisionIsRetried ==
    [][\A w \in Workers :
          (create_order_commit(w) /\ order_number_taken(txn[w].number))
              => pc'[w] # "replied"]_vars

\* C29: with requests served one at a time and only positive imports, the
\* current stock of every product is >= 0, also for orders with several
\* lines of one product.
C29_StockNeverNegative == \A p \in Products : current_stock(p) >= 0

\* C30: the debt of a confirmed credit order is reversed at most once: when
\* two cancellations read the order as CONFIRMED, the commit of the second
\* one (the first has committed its reversal) leaves the customer's balance
\* as it is, so that debt for other confirmed orders is not erased.
AlreadyReversed(o) ==
    /\ orders[o].status = OrderStatus_CANCELED
    /\ RowsOf(movements, "order_cancel", o) # {}

C30_DebtReversedOnce ==
    [][\A w \in Workers :
          (/\ cancel_order_commit(w)
           /\ txn[w].status = OrderStatus_CONFIRMED
           /\ AlreadyReversed(txn[w].order)
           /\ Credit(txn[w].order))
              => debt_balance' = debt_balance]_vars

\* the two racing cancellations alone: the second commit writes the balance
\* the first one wrote, as long as no other request changed it in between
SecondCancelRewritesSameBalance ==
    [][\A w \in Workers :
          (/\ cancel_order_commit(w)
           /\ txn[w].status = OrderStatus_CONFIRMED
           /\ AlreadyReversed(txn[w].order)
           /\ Credit(txn[w].order)
           /\ debt_balance[orders[txn[w].order].customer_id]
                  = reduce_debt(txn[w].bal, orders[txn[w].order].total_amount))
              => debt_balance' = debt_balance]_vars

====
